---- MODULE Spec2Model ----
(***************************************************************************)
(* The POST /transcribe request pipeline of app.py: temporary file         *)
(* handling, the speech model call, draining of the lazy segment sequence, *)
(* the empty-transcript check, the language-conditional translation, the   *)
(* assembled response, the except clauses and the finally block.           *)
(*                                                                         *)
(* The handler is a coroutine of the server's single event loop: it gives  *)
(* the loop's thread up at its one await and nowhere else.                 *)
(*                                                                         *)
(* Texts are sequences of one-character strings.  Times are integers       *)
(* (whole seconds) standing for the floats of the program.                 *)
(***************************************************************************)
EXTENDS Integers, Sequences, FiniteSets, TLC

\* ------------------------------------------------------------------ bounds
NumPaths == 2        \* distinct random names tempfile can draw
MaxSegs == 3         \* segments the speech model yields at most
MaxHealth == 1       \* GET /health requests the server is sent

\* the requests followed: the first alone, or the two side by side
Req == {1, 2}
PathNames == 1..NumPaths

\* ------------------------------------------------------- python sentinels
Absent == "<absent>"             \* the object has no such attribute
NoneVal == "<None>"              \* Python None, where a string is expected
AbsentText == <<"<absent>">>     \* a segment without a text attribute
AbsentTime == -99                \* a segment without a start / end attribute
AbsentDuration == -2             \* an info object without a duration
NoneDuration == -1               \* Python None, as the duration of the response
NoFilename == <<"<None>">>       \* UploadFile.filename is None
Mp3 == <<".", "m", "p", "3">>
NoPath == [name |-> 0, suffix |-> <<>>]      \* tmp_path = None

\* ------------------------------------------------------------ text helpers
RECURSIVE LStrip(_)
LStrip(s) == IF s # <<>> /\ Head(s) = " " THEN LStrip(Tail(s)) ELSE s

RECURSIVE RStrip(_)
RStrip(s) == IF s # <<>> /\ s[Len(s)] = " " THEN RStrip(SubSeq(s, 1, Len(s) - 1)) ELSE s

\* str.strip()
Strip(s) == RStrip(LStrip(s))

\* " ".join(parts)
RECURSIVE PyJoin(_)
PyJoin(parts) ==
    IF parts = <<>> THEN <<>>
    ELSE IF Len(parts) = 1 THEN parts[1]
    ELSE parts[1] \o <<" ">> \o PyJoin(Tail(parts))

\* str.rfind(c), 1-based, 0 when c does not occur
RFind(p, c) ==
    LET hits == {i \in 1..Len(p) : p[i] = c}
    IN  IF hits = {} THEN 0 ELSE CHOOSE i \in hits : \A j \in hits : j <= i

\* os.path.splitext(p): <<root, ext>>; a name made of leading dots has no ext
Splitext(p) ==
    LET sep == RFind(p, "/")
        dot == RFind(p, ".")
    IN  IF dot > sep /\ \E k \in (sep + 1)..(dot - 1) : p[k] # "."
        THEN <<SubSeq(p, 1, dot - 1), SubSeq(p, dot, Len(p))>>
        ELSE <<p, <<>>>>

\* GetAttr without the default: the two-argument getattr, reduced to the
\* value of the field
GetAttrNoDefault(field, absent, default) == field

\* getattr(obj, name, default) on a field that may be absent
GetAttr(field, absent, default) == IF field = absent THEN default ELSE field

\* ------------------------------------------------------------------ state
VARIABLES
    pc,               \* per request: the handler's position
    file,             \* per request: UploadFile.filename
    language,         \* per request: the language query parameter
    tmp_path,         \* per request: the local tmp_path
    disk,             \* the files of the temporary directory: [path, owner]
    info,             \* per request: the info object model.transcribe returned
    detected_lang,    \* per request: the local detected_lang
    yielded,          \* per request: the raw segments segments_gen has yielded
    segments,         \* per request: the local segments
    full_text_parts,  \* per request: the local full_text_parts
    final_text,       \* per request: the local final_text
    translated_text,  \* per request: the local translated_text
    modelCalls,       \* per request: the arguments of each model.transcribe call
    transCalls,       \* per request: the arguments of each translator.translate call
    transOut,         \* per request: what translator.translate gave back
    fault,            \* per request: the step the environment made fail
    pending,          \* per request: the return value / exception leaving try-except
    response,         \* per request: what the handler delivered to FastAPI
    rmFailed,         \* per request: os.remove raised in the finally block
    loop,             \* the request the event loop's thread is running, 0 for none
    trace,            \* per request: the steps its handler has executed, in order
    healthServed      \* the GET /health requests answered

reqVars == <<file, language>>
modelVars == <<info, detected_lang, yielded, segments, full_text_parts, modelCalls>>
textVars == <<final_text, translated_text, transCalls, transOut>>
endVars == <<response, rmFailed>>
vars == <<pc, file, language, tmp_path, disk, info, detected_lang, yielded, segments,
          full_text_parts, final_text, translated_text, modelCalls, transCalls,
          transOut, fault, pending, response, rmFailed, loop, trace, healthServed>>

\* ------------------------------------------------------- environment inputs
\* filenames of the upload: absent, without extension, with extension
Filenames == {NoFilename, <<"a">>, <<"a", ".", "w">>}

\* the optional language parameter: not given, empty, a language code
LangParams == {NoneVal, "", "hi"}

\* info objects of the speech model
Infos ==
    {[language |-> l, duration |-> 7] : l \in {"en", "hi", "ur", "unknown", NoneVal}}
        \cup {[language |-> Absent, duration |-> AbsentDuration]}

\* raw segments of the speech model
RawSegs ==
    { [start |-> 0, end |-> 1, text |-> <<"a">>],
      [start |-> 1, end |-> 2, text |-> <<" ", "b", " ">>],
      [start |-> 2, end |-> 2, text |-> <<>>],
      [start |-> 2, end |-> 1, text |-> <<" ">>],
      [start |-> -1, end |-> 0, text |-> <<"b">>],
      [start |-> AbsentTime, end |-> AbsentTime, text |-> AbsentText] }

\* what translator.translate(...) does: raises, returns an object without a
\* .text, or returns a result carrying a text
NotCalled == [kind |-> "notcalled", text |-> <<>>]
TransOuts ==
    { [kind |-> "raise", text |-> <<>>],
      [kind |-> "notext", text |-> <<>>],
      [kind |-> "ok", text |-> <<"n">>],
      [kind |-> "ok", text |-> <<>>] }

\* ------------------------------------------------------ outcomes of a request
NoBody ==
    [original_text |-> <<>>, translated_text |-> <<>>, segments |-> <<>>,
     info |-> [detected_language |-> "", duration |-> NoneDuration]]
NoResponse == [status |-> 0, detail |-> <<>>, body |-> NoBody]

\* the CancelledError that leaves the handler of a cancelled request
Cancelled == [status |-> 0, detail |-> <<"CancelledError">>, body |-> NoBody]

Exc(msg) == [kind |-> "Exception", status |-> 0, msg |-> msg]
HttpExc(status, msg) == [kind |-> "HTTPException", status |-> status, msg |-> msg]

\* Handle without the "except HTTPException: raise e" clause
HandleAsServerError(e) ==
    [status |-> 500, detail |-> <<"Transcription failed: ", e.msg>>, body |-> NoBody]

\* the except clauses: an HTTPException is re-raised as it is, any other
\* Exception becomes a 500 "Transcription failed: ..."
Handle(e) ==
    IF e.kind = "HTTPException"
    THEN [status |-> e.status, detail |-> <<e.msg>>, body |-> NoBody]
    ELSE [status |-> 500, detail |-> <<"Transcription failed: ", e.msg>>, body |-> NoBody]

\* an exception raised in the try block reaches the finally block
Raise(r, e) ==
    /\ pending' = [pending EXCEPT ![r] = Handle(e)]
    /\ pc' = [pc EXCEPT ![r] = "finally"]

Goto(r, label) == pc' = [pc EXCEPT ![r] = label]

\* ------------------------------------------------------------- file system
Exists(p, d) == \E f \in d : f.path = p
Remove(p, d) == {f \in d : f.path # p}

\* ------------------------------------------------------- the code's formulas
\* suffix = os.path.splitext(file.filename)[1] or ".mp3"
SuffixOf(filename) ==
    LET ext == Splitext(filename)[2]
    IN  IF ext # <<>> THEN ext ELSE Mp3

\* transcribe_kwargs
Kwargs(lang) ==
    [beam_size |-> 5, vad_filter |-> TRUE, temperature |-> 2,
     language |-> IF lang # NoneVal /\ lang # "" THEN lang ELSE Absent]

\* detected_lang = getattr(info, "language", "unknown")
DetectedLang(i) == GetAttr(i.language, Absent, "unknown")

\* SegData numbering from 1, as enumerate(segments_gen, 1) would
SegDataOneBased(i, segment) ==
    [id |-> i + 1,
     start |-> GetAttr(segment.start, AbsentTime, 0),
     end |-> GetAttr(segment.end, AbsentTime, 0),
     text |-> Strip(GetAttr(segment.text, AbsentText, <<>>))]

\* seg_data for the i-th segment of segments_gen
SegData(i, segment) ==
    [id |-> i,
     start |-> GetAttr(segment.start, AbsentTime, 0),
     end |-> GetAttr(segment.end, AbsentTime, 0),
     text |-> Strip(GetAttr(segment.text, AbsentText, <<>>))]

\* if not segments
NoSpeech(segs) == segs = <<>>

\* final_text = " ".join(full_text_parts).strip()
FinalText(parts) == Strip(PyJoin(parts))

\* Triggers for every language the model reports
TriggersAnyLanguage(lang) == lang # NoneVal

\* Triggers for Hindi alone
TriggersHindiOnly(lang) == lang = "hi"

\* if detected_lang in ["hi", "ur", "unknown"]
Triggers(lang) == lang \in {"hi", "ur", "unknown"}

\* Translated with translated_text left empty when the translation fails
TranslatedNoFallback(final, out) == out.text

\* translated_text after the try / except around translator.translate(...).text
Translated(final, out) == IF out.kind = "ok" THEN out.text ELSE final

\* the result dict
Result(final, translated, segs, lang, i) ==
    [original_text |-> final,
     translated_text |-> translated,
     segments |-> segs,
     info |-> [detected_language |-> lang,
               duration |-> GetAttr(i.duration, AbsentDuration, NoneDuration)]]

\* if tmp_path and os.path.exists(tmp_path)
ShouldRemove(p, d) == p # NoPath /\ Exists(p, d)

\* AfterCleanup with os.remove outside a try / except: its exception leaves
\* the finally block and replaces the outcome of the try block
AfterCleanupPropagates(outcome, removed) ==
    IF removed THEN outcome
    ELSE [status |-> 500, detail |-> <<"Internal Server Error">>, body |-> NoBody]

\* what leaves the handler after the finally block: the try / except around
\* os.remove swallows its failure
AfterCleanup(outcome, removed) == outcome

\* ------------------------------------------------------------------- Init
Init ==
    /\ pc = [r \in Req |-> "idle"]
    /\ file = [r \in Req |-> NoFilename]
    /\ language = [r \in Req |-> NoneVal]
    /\ tmp_path = [r \in Req |-> NoPath]
    /\ disk = {}
    /\ info = [r \in Req |-> [language |-> Absent, duration |-> AbsentDuration]]
    /\ detected_lang = [r \in Req |-> ""]
    /\ yielded = [r \in Req |-> <<>>]
    /\ segments = [r \in Req |-> <<>>]
    /\ full_text_parts = [r \in Req |-> <<>>]
    /\ final_text = [r \in Req |-> <<>>]
    /\ translated_text = [r \in Req |-> <<>>]
    /\ modelCalls = [r \in Req |-> <<>>]
    /\ transCalls = [r \in Req |-> <<>>]
    /\ transOut = [r \in Req |-> NotCalled]
    /\ fault = [r \in Req |-> "none"]
    /\ pending = [r \in Req |-> NoResponse]
    /\ response = [r \in Req |-> NoResponse]
    /\ rmFailed = [r \in Req |-> FALSE]
    /\ loop = 0
    /\ trace = [r \in Req |-> <<>>]
    /\ healthServed = 0

\* ---------------------------------------------------------------- actions
\* the handler of request r executes the step named label
Step(r, label) ==
    /\ trace' = [trace EXCEPT ![r] = Append(@, label)]
    /\ UNCHANGED healthServed

\* FastAPI calls transcribe(file, language)
Receive(r, files, langs) ==
    /\ pc[r] = "idle"
    /\ loop = 0
    /\ loop' = r
    /\ \E f \in files, l \in langs :
        /\ file' = [file EXCEPT ![r] = f]
        /\ language' = [language EXCEPT ![r] = l]
    /\ Goto(r, "create")
    /\ Step(r, "receive")
    /\ UNCHANGED <<tmp_path, disk, modelVars, textVars, fault, pending, endVars>>

\* Create with a name drawn without the exclusive creation of tempfile: the
\* name may be that of a file that exists already
CreateAnyName(r) ==
    /\ pc[r] = "create"
    /\ loop = r
    /\ IF file[r] = NoFilename
       THEN /\ Raise(r, Exc("TypeError"))
            /\ Step(r, "suffix_failed")
            /\ UNCHANGED <<tmp_path, disk, fault>>
       ELSE \/ /\ fault' = [fault EXCEPT ![r] = "create"]
               /\ Raise(r, Exc("OSError"))
               /\ Step(r, "create_failed")
               /\ UNCHANGED <<tmp_path, disk>>
            \/ \E n \in PathNames :
                   LET p == [name |-> n, suffix |-> SuffixOf(file[r])]
                   IN  /\ disk' = disk \cup {[path |-> p, owner |-> r]}
                       /\ tmp_path' = [tmp_path EXCEPT ![r] = p]
                       /\ Goto(r, "read")
                       /\ Step(r, "create")
                       /\ UNCHANGED <<fault, pending>>
    /\ UNCHANGED <<reqVars, modelVars, textVars, endVars, loop>>

\* tmp_path = None; suffix = ...; NamedTemporaryFile(suffix=suffix, delete=False);
\* tmp_path = tmp.name
Create(r) ==
    /\ pc[r] = "create"
    /\ loop = r
    /\ IF file[r] = NoFilename
       THEN \* os.path.splitext(None) raises TypeError
            /\ Raise(r, Exc("TypeError"))
            /\ Step(r, "suffix_failed")
            /\ UNCHANGED <<tmp_path, disk, fault>>
       ELSE \/ \* the temporary file cannot be created
               /\ fault' = [fault EXCEPT ![r] = "create"]
               /\ Raise(r, Exc("OSError"))
               /\ Step(r, "create_failed")
               /\ UNCHANGED <<tmp_path, disk>>
            \/ \* a file of a name that does not exist yet
               \E n \in PathNames :
                   LET p == [name |-> n, suffix |-> SuffixOf(file[r])]
                   IN  /\ ~Exists(p, disk)
                       /\ disk' = disk \cup {[path |-> p, owner |-> r]}
                       /\ tmp_path' = [tmp_path EXCEPT ![r] = p]
                       /\ Goto(r, "read")
                       /\ Step(r, "create")
                       /\ UNCHANGED <<fault, pending>>
    /\ UNCHANGED <<reqVars, modelVars, textVars, endVars, loop>>

\* await file.read(): the coroutine is suspended and the event loop is free
AwaitRead(r) ==
    /\ pc[r] = "read"
    /\ loop = r
    /\ loop' = 0
    /\ Goto(r, "write")
    /\ Step(r, "await_read")
    /\ UNCHANGED <<reqVars, tmp_path, disk, modelVars, textVars, fault, pending, endVars>>

\* Write with the existence check left out: the model call follows the with
\* block directly
WriteSkipsCheck(r) ==
    /\ pc[r] = "write"
    /\ loop = 0
    /\ loop' = r
    /\ \/ /\ Goto(r, "model")
          /\ Step(r, "write")
          /\ UNCHANGED <<fault, pending>>
       \/ /\ fault' = [fault EXCEPT ![r] = "write"]
          /\ Raise(r, Exc("OSError"))
          /\ Step(r, "write_failed")
    /\ UNCHANGED <<reqVars, tmp_path, disk, modelVars, textVars, endVars>>

\* the coroutine is resumed with the upload's bytes (or the exception of the
\* read): tmp.write(...) and the end of the with block
Write(r) ==
    /\ pc[r] = "write"
    /\ loop = 0
    /\ loop' = r
    /\ \/ /\ Goto(r, "check")
          /\ Step(r, "write")
          /\ UNCHANGED <<fault, pending>>
       \/ /\ fault' = [fault EXCEPT ![r] = "write"]
          /\ Raise(r, Exc("OSError"))
          /\ Step(r, "write_failed")
    /\ UNCHANGED <<reqVars, tmp_path, disk, modelVars, textVars, endVars>>

\* Cancel with the deletion after the try statement instead of in finally:
\* the CancelledError leaves the handler without it
CancelSkipsRelease(r) ==
    /\ pc[r] = "write"
    /\ loop = 0
    /\ fault' = [fault EXCEPT ![r] = "cancel"]
    /\ pending' = [pending EXCEPT ![r] = Cancelled]
    /\ response' = [response EXCEPT ![r] = Cancelled]
    /\ Goto(r, "done")
    /\ Step(r, "cancelled")
    /\ UNCHANGED <<reqVars, tmp_path, disk, modelVars, textVars, rmFailed, loop>>

\* the request's task is cancelled while it is suspended in await file.read():
\* CancelledError is raised there, the with block closes the file, no except
\* clause catches it (it is no Exception) and the finally block is next
Cancel(r) ==
    /\ pc[r] = "write"
    /\ loop = 0
    /\ loop' = r
    /\ fault' = [fault EXCEPT ![r] = "cancel"]
    /\ pending' = [pending EXCEPT ![r] = Cancelled]
    /\ Goto(r, "finally")
    /\ Step(r, "cancelled")
    /\ UNCHANGED <<reqVars, tmp_path, disk, modelVars, textVars, endVars>>

\* if not os.path.exists(tmp_path): raise HTTPException(500, ...)
Check(r) ==
    /\ pc[r] = "check"
    /\ loop = r
    /\ IF ~Exists(tmp_path[r], disk)
       THEN /\ fault' = [fault EXCEPT ![r] = "missing"]
            /\ Raise(r, HttpExc(500, "Temporary file not saved correctly."))
            /\ Step(r, "check_failed")
       ELSE /\ Goto(r, "model")
            /\ Step(r, "check")
            /\ UNCHANGED <<fault, pending>>
    /\ UNCHANGED <<reqVars, tmp_path, disk, modelVars, textVars, endVars, loop>>

\* ModelCall with one retry of a model call that raised
ModelCallRetrying(r, infos) ==
    /\ pc[r] = "model"
    /\ loop = r
    /\ Step(r, "model")
    /\ modelCalls' = [modelCalls EXCEPT
                        ![r] = Append(@, [path |-> tmp_path[r], kwargs |-> Kwargs(language[r])])]
    /\ \/ /\ IF modelCalls[r] = <<>>
             THEN UNCHANGED <<pc, fault, pending>>
             ELSE fault' = [fault EXCEPT ![r] = "model"] /\ Raise(r, Exc("model"))
          /\ UNCHANGED <<info, detected_lang>>
       \/ \E i \in infos :
              /\ info' = [info EXCEPT ![r] = i]
              /\ detected_lang' = [detected_lang EXCEPT ![r] = DetectedLang(i)]
              /\ Goto(r, "drain")
              /\ UNCHANGED <<fault, pending>>
    /\ UNCHANGED <<reqVars, tmp_path, disk, yielded, segments, full_text_parts,
                   textVars, endVars, loop>>

\* segments_gen, info = model.transcribe(tmp_path, **transcribe_kwargs);
\* detected_lang = ...; segments, full_text_parts = [], []
ModelCall(r, infos) ==
    /\ pc[r] = "model"
    /\ loop = r
    /\ Step(r, "model")
    /\ modelCalls' = [modelCalls EXCEPT
                        ![r] = Append(@, [path |-> tmp_path[r], kwargs |-> Kwargs(language[r])])]
    /\ \/ /\ fault' = [fault EXCEPT ![r] = "model"]
          /\ Raise(r, Exc("model"))
          /\ UNCHANGED <<info, detected_lang>>
       \/ \E i \in infos :
              /\ info' = [info EXCEPT ![r] = i]
              /\ detected_lang' = [detected_lang EXCEPT ![r] = DetectedLang(i)]
              /\ Goto(r, "drain")
              /\ UNCHANGED <<fault, pending>>
    /\ UNCHANGED <<reqVars, tmp_path, disk, yielded, segments, full_text_parts,
                   textVars, endVars, loop>>

\* one pass of the for loop: segments_gen yields the next segment
DrainNext(r, segs) ==
    /\ pc[r] = "drain"
    /\ loop = r
    /\ Len(yielded[r]) < MaxSegs
    /\ Step(r, "yield")
    /\ \E segment \in segs :
          LET seg_data == SegData(Len(segments[r]), segment)
          IN  /\ yielded' = [yielded EXCEPT ![r] = Append(@, segment)]
              /\ segments' = [segments EXCEPT ![r] = Append(@, seg_data)]
              /\ full_text_parts' = [full_text_parts EXCEPT ![r] = Append(@, seg_data.text)]
    /\ UNCHANGED <<pc, reqVars, tmp_path, disk, info, detected_lang, modelCalls,
                   textVars, fault, pending, endVars, loop>>

\* DrainRaise with the exception swallowed and the loop left
DrainRaiseSwallowed(r) ==
    /\ pc[r] = "drain"
    /\ loop = r
    /\ fault' = [fault EXCEPT ![r] = "drain"]
    /\ Goto(r, "empty")
    /\ Step(r, "drain_raised")
    /\ UNCHANGED <<reqVars, tmp_path, disk, modelVars, textVars, pending, endVars, loop>>

\* segments_gen raises while it is iterated
DrainRaise(r) ==
    /\ pc[r] = "drain"
    /\ loop = r
    /\ fault' = [fault EXCEPT ![r] = "drain"]
    /\ Raise(r, Exc("decode"))
    /\ Step(r, "drain_raised")
    /\ UNCHANGED <<reqVars, tmp_path, disk, modelVars, textVars, endVars, loop>>

\* segments_gen is exhausted: the for loop ends
DrainEnd(r) ==
    /\ pc[r] = "drain"
    /\ loop = r
    /\ Goto(r, "empty")
    /\ Step(r, "drained")
    /\ UNCHANGED <<reqVars, tmp_path, disk, modelVars, textVars, fault, pending, endVars,
                   loop>>

\* if not segments: raise HTTPException(400, ...)
EmptyCheck(r) ==
    /\ pc[r] = "empty"
    /\ loop = r
    /\ IF NoSpeech(segments[r])
       THEN Raise(r, HttpExc(400, "No speech detected in the audio.")) /\ Step(r, "empty")
       ELSE Goto(r, "normalize") /\ Step(r, "not_empty") /\ UNCHANGED pending
    /\ UNCHANGED <<reqVars, tmp_path, disk, modelVars, textVars, fault, endVars, loop>>

\* final_text = ...; translated_text = final_text; the translation of a
\* triggering language, with its fallback
Normalize(r, outs) ==
    /\ pc[r] = "normalize"
    /\ loop = r
    /\ LET final == FinalText(full_text_parts[r])
       IN  /\ final_text' = [final_text EXCEPT ![r] = final]
           /\ IF Triggers(detected_lang[r])
              THEN \E out \in outs :
                      /\ transCalls' = [transCalls EXCEPT
                                          ![r] = Append(@, [text |-> final, dest |-> "hi"])]
                      /\ transOut' = [transOut EXCEPT ![r] = out]
                      /\ translated_text' = [translated_text EXCEPT
                                               ![r] = Translated(final, out)]
              ELSE /\ translated_text' = [translated_text EXCEPT ![r] = final]
                   /\ UNCHANGED <<transCalls, transOut>>
    /\ Goto(r, "assemble")
    /\ Step(r, "normalize")
    /\ UNCHANGED <<reqVars, tmp_path, disk, modelVars, fault, pending, endVars, loop>>

\* result = {...}; return result
Assemble(r) ==
    /\ pc[r] = "assemble"
    /\ loop = r
    /\ pending' = [pending EXCEPT
                     ![r] = [status |-> 200, detail |-> <<>>,
                             body |-> Result(final_text[r], translated_text[r],
                                             segments[r], detected_lang[r], info[r])]]
    /\ Goto(r, "finally")
    /\ Step(r, "assemble")
    /\ UNCHANGED <<reqVars, tmp_path, disk, modelVars, textVars, fault, endVars, loop>>

\* Finally with the deletion placed at the end of the try block: it runs on
\* the success path alone
FinallyOnSuccessOnly(r) ==
    /\ pc[r] = "finally"
    /\ loop = r
    /\ loop' = 0
    /\ IF pending[r].status = 200 /\ ShouldRemove(tmp_path[r], disk)
       THEN \E removed \in BOOLEAN :
               /\ disk' = IF removed THEN Remove(tmp_path[r], disk) ELSE disk
               /\ rmFailed' = [rmFailed EXCEPT ![r] = ~removed]
               /\ response' = [response EXCEPT ![r] = AfterCleanup(pending[r], removed)]
       ELSE /\ response' = [response EXCEPT ![r] = pending[r]]
            /\ UNCHANGED <<disk, rmFailed>>
    /\ Goto(r, "done")
    /\ Step(r, "release")
    /\ UNCHANGED <<reqVars, tmp_path, modelVars, textVars, fault, pending>>

\* Finally with a release that deletes every file of the temporary directory
FinallyEmptiesDirectory(r) ==
    /\ pc[r] = "finally"
    /\ loop = r
    /\ loop' = 0
    /\ IF ShouldRemove(tmp_path[r], disk)
       THEN \E removed \in BOOLEAN :
               /\ disk' = IF removed THEN {} ELSE disk
               /\ rmFailed' = [rmFailed EXCEPT ![r] = ~removed]
               /\ response' = [response EXCEPT ![r] = AfterCleanup(pending[r], removed)]
       ELSE /\ response' = [response EXCEPT ![r] = pending[r]]
            /\ UNCHANGED <<disk, rmFailed>>
    /\ Goto(r, "done")
    /\ Step(r, "release")
    /\ UNCHANGED <<reqVars, tmp_path, modelVars, textVars, fault, pending>>

\* the finally block, after which the handler returns or raises
Finally(r) ==
    /\ pc[r] = "finally"
    /\ loop = r
    /\ loop' = 0
    /\ IF ShouldRemove(tmp_path[r], disk)
       THEN \E removed \in BOOLEAN :
               /\ disk' = IF removed THEN Remove(tmp_path[r], disk) ELSE disk
               /\ rmFailed' = [rmFailed EXCEPT ![r] = ~removed]
               /\ response' = [response EXCEPT ![r] = AfterCleanup(pending[r], removed)]
       ELSE /\ response' = [response EXCEPT ![r] = pending[r]]
            /\ UNCHANGED <<disk, rmFailed>>
    /\ Goto(r, "done")
    /\ Step(r, "release")
    /\ UNCHANGED <<reqVars, tmp_path, modelVars, textVars, fault, pending>>

\* something outside the server deletes a file of the temporary directory
EnvUnlink ==
    /\ \E f \in disk : disk' = disk \ {f}
    /\ UNCHANGED <<pc, reqVars, tmp_path, modelVars, textVars, fault, pending, endVars,
                   loop, trace, healthServed>>

\* GET /health: a coroutine without an await, run by the event loop's thread
Health ==
    /\ loop = 0
    /\ healthServed < MaxHealth
    /\ healthServed' = healthServed + 1
    /\ UNCHANGED <<pc, reqVars, tmp_path, disk, modelVars, textVars, fault, pending,
                   endVars, loop, trace>>

\* ---------------------------------------------------------- specification
\* one request, with the full range of uploads and collaborator results
Next ==
    \/ \E r \in {1} :
        \/ Receive(r, Filenames, LangParams)
        \/ Create(r)
        \/ AwaitRead(r)
        \/ Write(r)
        \/ Cancel(r)
        \/ Check(r)
        \/ ModelCall(r, Infos)
        \/ DrainNext(r, RawSegs)
        \/ DrainRaise(r)
        \/ DrainEnd(r)
        \/ EmptyCheck(r)
        \/ Normalize(r, TransOuts)
        \/ Assemble(r)
        \/ Finally(r)
    \/ EnvUnlink

Spec == Init /\ [][Next]_vars

\* requests handled by one server process, each with a narrow range of
\* uploads and collaborator results
ConcFilenames == {<<"a", ".", "w">>}
ConcLangParams == {NoneVal}
ConcInfos == {[language |-> l, duration |-> 7] : l \in {"en", "hi"}}
ConcSegs == {[start |-> 0, end |-> 1, text |-> <<"a">>]}
ConcTransOuts == {[kind |-> "raise", text |-> <<>>], [kind |-> "ok", text |-> <<"n">>]}

NextConc ==
    \/ \E r \in Req :
        \/ Receive(r, ConcFilenames, ConcLangParams)
        \/ Create(r)
        \/ AwaitRead(r)
        \/ Write(r)
        \/ Cancel(r)
        \/ Check(r)
        \/ ModelCall(r, ConcInfos)
        \/ DrainNext(r, ConcSegs)
        \/ DrainRaise(r)
        \/ DrainEnd(r)
        \/ EmptyCheck(r)
        \/ Normalize(r, ConcTransOuts)
        \/ Assemble(r)
        \/ Finally(r)
    \/ Health
    \/ EnvUnlink

SpecConc == Init /\ [][NextConc]_vars

\* the server on its own: the interleavings of its requests, with no one
\* else deleting files of the temporary directory
NextServer ==
    \/ \E r \in Req :
        \/ Receive(r, ConcFilenames, ConcLangParams)
        \/ Create(r)
        \/ AwaitRead(r)
        \/ Write(r)
        \/ Cancel(r)
        \/ Check(r)
        \/ ModelCall(r, ConcInfos)
        \/ DrainNext(r, ConcSegs)
        \/ DrainRaise(r)
        \/ DrainEnd(r)
        \/ EmptyCheck(r)
        \/ Normalize(r, ConcTransOuts)
        \/ Assemble(r)
        \/ Finally(r)
    \/ Health

SpecServer == Init /\ [][NextServer]_vars

\* ------------------------------------------------------------------ claims
Done(r) == pc[r] = "done"
Ok(r) == Done(r) /\ response[r].status = 200

\* the model call returned and its segment sequence was drained to the end
Drained(r) ==
    /\ modelCalls[r] # <<>>
    /\ fault[r] = "none"
    /\ pc[r] \in {"empty", "normalize", "assemble", "finally", "done"}

\* the trimmed text of a raw segment of the model
TrimmedText(segment) == Strip(IF segment.text = AbsentText THEN <<>> ELSE segment.text)

\* the trimmed texts of the segments the model yielded, in the order it yielded them
ModelTexts(r) == [i \in 1..Len(yielded[r]) |-> TrimmedText(yielded[r][i])]

NonEmpty(t) == t # <<>>

\* C1 as stated: once the handler of a request has completed, on any exit
\* path, the temporary file path it created does not exist on disk.
C1_PathGoneAfterRequest ==
    \A r \in Req : Done(r) /\ tmp_path[r] # NoPath => ~Exists(tmp_path[r], disk)

\* C1 as amended: once the handler of a request has completed, on any exit
\* path, the temporary file path it created does not exist on disk, unless
\* os.remove itself raised in the finally block.
C1_PathGoneUnlessRemoveFailed ==
    \A r \in Req :
        Done(r) /\ tmp_path[r] # NoPath /\ ~rmFailed[r] => ~Exists(tmp_path[r], disk)

\* a request that failed while the model's segments were drained has
\* completed, its deletion did not fail and its temporary file is gone
C1_Witness ==
    \E r \in Req :
        /\ Done(r) /\ tmp_path[r] # NoPath /\ ~rmFailed[r]
        /\ fault[r] = "drain" /\ response[r].status = 500
        /\ ~Exists(tmp_path[r], disk)

\* C2: when the model call succeeds and yields zero segments the request ends
\* with 400 "No speech detected in the audio." (not 200, not 500) and the
\* translation service is never called; every 200 carries at least one segment.
C2_EmptyTranscriptIs400 ==
    \A r \in Req :
        /\ Drained(r) /\ yielded[r] = <<>> =>
              /\ transCalls[r] = <<>>
              /\ pc[r] \notin {"normalize", "assemble"}
              /\ pc[r] = "finally" => pending[r].status = 400
              /\ Done(r) => response[r] =
                    [status |-> 400, detail |-> <<"No speech detected in the audio.">>,
                     body |-> NoBody]
        /\ Ok(r) => Len(response[r].body.segments) >= 1

C2_Witness ==
    \E r \in Req :
        Done(r) /\ Drained(r) /\ yielded[r] = <<>> /\ response[r].status = 400

\* C3 as stated: original_text of a 200 is the single-space join, in id
\* order, of the non-empty trimmed segment texts.
C3_JoinSkipsEmptyTexts ==
    \A r \in Req :
        Ok(r) => response[r].body.original_text
                    = PyJoin(SelectSeq(ModelTexts(r), NonEmpty))

\* C4: the segments of a 200 are one entry per segment the model yielded, in
\* the model's order, empty texts included, and segments[i].id = i.
C4_SegmentsMirrorModel ==
    \A r \in Req :
        Ok(r) =>
            LET out == response[r].body.segments
            IN  /\ Len(out) = Len(yielded[r])
                /\ \A i \in 1..Len(out) :
                      /\ out[i].id = i - 1
                      /\ out[i].text = TrimmedText(yielded[r][i])
                      /\ yielded[r][i].start # AbsentTime => out[i].start = yielded[r][i].start
                      /\ yielded[r][i].end # AbsentTime => out[i].end = yielded[r][i].end

\* a 200 of three segments, the middle one with an empty text
C4_Witness ==
    \E r \in Req :
        /\ Ok(r)
        /\ Len(response[r].body.segments) = 3
        /\ response[r].body.segments[2].text = <<>>
        /\ response[r].body.segments[3].text # <<>>

\* C5 as stated: every segment of a response has end >= start >= 0, whatever
\* start / end the model reports.
C5_TimesOrdered ==
    \A r \in Req :
        Ok(r) => \A i \in 1..Len(response[r].body.segments) :
                    LET seg == response[r].body.segments[i]
                    IN  seg.end >= seg.start /\ seg.start >= 0

\* C6: a 200 whose detected language is none of hi, ur, unknown has made no
\* translation call and its translated_text is its original_text.
C6_NoTriggerNoTranslation ==
    \A r \in Req :
        Ok(r) /\ response[r].body.info.detected_language \notin {"hi", "ur", "unknown"} =>
            /\ transCalls[r] = <<>>
            /\ response[r].body.translated_text = response[r].body.original_text

C6_Witness ==
    \E r \in Req :
        /\ Ok(r)
        /\ response[r].body.info.detected_language = "en"
        /\ response[r].body.original_text # <<>>
        /\ response[r].body.translated_text = response[r].body.original_text

\* C7: when the detected language triggers the translation and the
\* translation service raises or returns a result without a text, the request
\* ends with 200, translated_text is original_text, and segments and info are
\* those of the model.
C7_TranslationFailureFallsBack ==
    \A r \in Req :
        Done(r) /\ transOut[r].kind \in {"raise", "notext"} =>
            /\ response[r].status = 200
            /\ response[r].body.translated_text = response[r].body.original_text
            /\ response[r].body.original_text = FinalText(ModelTexts(r))
            /\ Len(response[r].body.segments) = Len(yielded[r])
            /\ \A i \in 1..Len(yielded[r]) :
                  response[r].body.segments[i].text = TrimmedText(yielded[r][i])
            /\ response[r].body.info.detected_language
                  = (IF info[r].language = Absent THEN "unknown" ELSE info[r].language)

C7_Witness ==
    \E r \in Req :
        /\ Ok(r) /\ transOut[r].kind = "notext"
        /\ response[r].body.info.detected_language = "ur"
        /\ response[r].body.translated_text # <<>>

\* C8: when the detected language is hi, ur or unknown and the drained
\* sequence has a segment, the translation service is called with
\* original_text and target "hi"; when it succeeds translated_text is its
\* output and original_text is the joined model text.
C8_TriggerTranslates ==
    \A r \in Req :
        (/\ pc[r] \in {"assemble", "finally", "done"}
         /\ Drained(r) /\ yielded[r] # <<>>
         /\ detected_lang[r] \in {"hi", "ur", "unknown"})
        => /\ transCalls[r] = <<[text |-> FinalText(ModelTexts(r)), dest |-> "hi"]>>
           /\ Done(r) /\ transOut[r].kind = "ok" =>
                 /\ response[r].status = 200
                 /\ response[r].body.translated_text = transOut[r].text
                 /\ response[r].body.original_text = FinalText(ModelTexts(r))

C8_Witness ==
    \E r \in Req :
        /\ Ok(r) /\ transOut[r].kind = "ok"
        /\ info[r].language = Absent
        /\ response[r].body.translated_text = <<"n">>
        /\ response[r].body.original_text = <<"a", " ", "b">>

\* C9: when the temporary file cannot be created or written, the existence
\* check fails, the model call raises or the segment sequence raises, the
\* request ends with 500 and a detail message, and no later step runs: no
\* model call after a storage failure, no translation after any of them.
C9_FailuresAre500 ==
    \A r \in Req :
        fault[r] \in {"create", "write", "missing", "model", "drain"} =>
            /\ pc[r] \in {"finally", "done"}
            /\ pending[r].status = 500 /\ pending[r].detail # <<>>
            /\ Done(r) => response[r].status = 500 /\ response[r].detail # <<>>
            /\ transCalls[r] = <<>>
            /\ fault[r] \in {"create", "write", "missing"} => modelCalls[r] = <<>>
            /\ fault[r] = "model" => yielded[r] = <<>>

\* a request whose segment sequence raised after yielding two segments
C9_Witness ==
    \E r \in Req :
        /\ Done(r) /\ fault[r] = "drain" /\ Len(yielded[r]) = 2
        /\ response[r].status = 500

\* two requests were given the same upload, and every step of theirs but the
\* deletion of the temporary file went the same way
SameInputs(r1, r2) ==
    /\ file[r1] = file[r2] /\ language[r1] = language[r2]
    /\ fault[r1] = fault[r2]
    /\ Len(modelCalls[r1]) = Len(modelCalls[r2])
    /\ info[r1] = info[r2] /\ yielded[r1] = yielded[r2]
    /\ transOut[r1] = transOut[r2]

\* C10: a failure of the deletion in the finally block does not change the
\* outcome: two completed requests that differ in nothing but the deletion
\* of their temporary files have the same status and body.
C10_CleanupFailureKeepsOutcome ==
    \A r1, r2 \in Req :
        Done(r1) /\ Done(r2) /\ SameInputs(r1, r2) => response[r1] = response[r2]

\* two requests with the same inputs and a 200: the deletion failed for one
\* and succeeded for the other
C10_Witness ==
    \E r1, r2 \in Req :
        /\ Done(r1) /\ Done(r2) /\ SameInputs(r1, r2)
        /\ rmFailed[r1] /\ Exists(tmp_path[r1], disk)
        /\ ~rmFailed[r2] /\ tmp_path[r2] # NoPath /\ ~Exists(tmp_path[r2], disk)
        /\ response[r1].status = 200 /\ response[r2].status = 200

\* the extension of an upload's filename: from its last dot on, if it has one
Extension(f) ==
    IF f = NoFilename \/ \A i \in 1..Len(f) : f[i] # "."
    THEN <<>>
    ELSE LET last == CHOOSE i \in 1..Len(f) :
                        f[i] = "." /\ \A j \in (i + 1)..Len(f) : f[j] # "."
         IN  SubSeq(f, last, Len(f))

\* C11 as stated: the temporary path ends with the extension of the upload's
\* filename, and with ".mp3" when the filename has none or is absent; an
\* absent filename does not fail the request.
C11_SuffixFromFilename ==
    \A r \in Req :
        /\ tmp_path[r] # NoPath =>
              tmp_path[r].suffix = (IF Extension(file[r]) = <<>> THEN Mp3
                                    ELSE Extension(file[r]))
        /\ file[r] = NoFilename /\ pc[r] \notin {"idle", "create"} /\ fault[r] # "create" =>
              tmp_path[r] # NoPath /\ tmp_path[r].suffix = Mp3

\* the handler of request r has executed the step named label
InTrace(r, label) == \E i \in 1..Len(trace[r]) : trace[r][i] = label

\* C12 as stated: a request cancelled at its suspension point (the await of
\* the upload read, the temporary file being created) still runs the release
\* step, and its temporary file is not left on disk.
C12_CancelReleases ==
    \A r \in Req :
        fault[r] = "cancel" =>
            /\ pc[r] \in {"finally", "done"}
            /\ Done(r) => InTrace(r, "release") /\ ~Exists(tmp_path[r], disk)

\* C12 as amended: a request cancelled at its suspension point still runs the
\* release step, and its temporary file is not left on disk unless os.remove
\* itself raised in the release step.
C12_CancelReleasesUnlessRemoveFailed ==
    \A r \in Req :
        fault[r] = "cancel" =>
            /\ pc[r] \in {"finally", "done"}
            /\ Done(r) => /\ InTrace(r, "release")
                          /\ rmFailed[r] \/ ~Exists(tmp_path[r], disk)

\* a cancelled request has completed: the release step was its last step and
\* the file it had created is gone
C12_Witness ==
    \E r \in Req :
        /\ Done(r) /\ fault[r] = "cancel"
        /\ tmp_path[r] # NoPath /\ ~rmFailed[r] /\ ~Exists(tmp_path[r], disk)
        /\ trace[r] = <<"receive", "create", "await_read", "cancelled", "release">>

\* the temporary file request r created is on disk
Live(r) ==
    tmp_path[r] # NoPath /\ [path |-> tmp_path[r], owner |-> r] \in disk

\* no two requests hold the same path while the files of both are on disk
DistinctLivePaths ==
    \A r1, r2 \in Req :
        r1 # r2 /\ Live(r1) /\ Live(r2) => tmp_path[r1] # tmp_path[r2]

\* a file leaves the disk only in the release step of the request that
\* created it, and it is the file at that request's tmp_path
OnlyOwnFileDeleted ==
    \A f \in disk \ disk' :
        \E r \in Req :
            /\ pc[r] = "finally" /\ pc'[r] = "done"
            /\ f.owner = r /\ f.path = tmp_path[r]

\* C13: in any interleaving of concurrent requests, two requests whose
\* temporary files exist at the same time hold different paths, and the
\* release step of a request deletes nothing but the file this request
\* created (nothing when it created none).
C13_OwnPathOnly == []DistinctLivePaths /\ [][OnlyOwnFileDeleted]_vars

\* the files of both requests are on disk at once, under different names
C13_Witness ==
    /\ Live(1) /\ Live(2) /\ tmp_path[1] # tmp_path[2]
    /\ pc[1] = "write" /\ pc[2] = "write"

\* request r is inside the speech model: in model.transcribe or in the
\* iteration of its lazy segment sequence, where the decoding is done
InModel(r) == pc[r] \in {"model", "drain"}

\* C14 as stated: while a request is inside the blocking speech model call,
\* the other requests of the process (another /transcribe, a /health) can
\* take their next step: the model call does not hold the thread that
\* handles network I/O.
C14_ModelCallDoesNotBlock ==
    \A r \in Req :
        InModel(r) =>
            /\ healthServed < MaxHealth => ENABLED Health
            /\ \A q \in Req \ {r} :
                  /\ pc[q] = "idle" => ENABLED Receive(q, ConcFilenames, ConcLangParams)
                  /\ pc[q] = "write" => ENABLED Write(q)

\* how often the handler of request r has executed the step named label
Count(r, label) == Cardinality({i \in 1..Len(trace[r]) : trace[r][i] = label})

\* the step of the handler at which each kind of failure shows
FailedStep(kind) ==
    CASE kind = "create" -> "create_failed"
      [] kind = "write" -> "write_failed"
      [] kind = "missing" -> "check_failed"
      [] kind = "model" -> "model"
      [] kind = "drain" -> "drain_raised"
      [] kind = "cancel" -> "cancelled"

\* C15: within a request the temporary file is created at most once, the
\* speech model is invoked at most once, its segment sequence is iterated
\* exactly once, the translation service is called at most once, and after a
\* failure no step but the release is executed.
C15_NoStepRepeated ==
    \A r \in Req :
        /\ Count(r, "create") + Count(r, "create_failed") <= 1
        /\ Len(modelCalls[r]) <= 1 /\ Count(r, "model") <= 1
        /\ Count(r, "drained") + Count(r, "drain_raised") <= 1
        /\ Drained(r) => /\ Count(r, "drained") = 1
                         /\ Count(r, "yield") = Len(yielded[r])
                         /\ Len(segments[r]) = Len(yielded[r])
        /\ Len(transCalls[r]) <= 1 /\ Count(r, "normalize") <= 1
        /\ fault[r] # "none" =>
              LET n == Len(trace[r])
                  k == IF trace[r][n] = "release" THEN n - 1 ELSE n
              IN  /\ pc[r] \in {"finally", "done"}
                  /\ trace[r][k] = FailedStep(fault[r])
                  /\ Count(r, "release") <= 1

\* a 200 for which each of the four steps was executed once
C15_Witness ==
    \E r \in Req :
        /\ Ok(r)
        /\ Count(r, "create") = 1 /\ Len(modelCalls[r]) = 1
        /\ Count(r, "drained") = 1 /\ Len(yielded[r]) = 2
        /\ Len(transCalls[r]) = 1

\* every occurrence of step label in the trace of r directly follows the
\* steps before, in that order
Follows(r, label, before) ==
    \A j \in 1..Len(trace[r]) :
        trace[r][j] = label =>
            /\ j > Len(before)
            /\ \A i \in 1..Len(before) : trace[r][j - Len(before) + i - 1] = before[i]

\* C16: the model is invoked only after the upload was awaited, written with
\* the file closed, and the file's existence verified; the empty-segment check
\* comes only after the segment sequence was drained; post-processing comes
\* only after the empty check passed and the response is assembled after it;
\* the release is the last step of every returned handler and of no other
\* position.
C16_FixedStepOrder ==
    \A r \in Req :
        /\ Follows(r, "model", <<"create", "await_read", "write", "check">>)
        /\ Follows(r, "empty", <<"drained">>)
        /\ Follows(r, "not_empty", <<"drained">>)
        /\ Follows(r, "normalize", <<"not_empty">>)
        /\ Follows(r, "assemble", <<"normalize">>)
        /\ \A j \in 1..Len(trace[r]) :
              trace[r][j] \in {"yield", "drained"} =>
                  j > 1 /\ trace[r][j - 1] \in {"model", "yield"}
        /\ \A j \in 1..Len(trace[r]) :
              trace[r][j] = "release" <=> Done(r) /\ j = Len(trace[r])
        /\ Done(r) => trace[r][Len(trace[r])] = "release"

\* a 200 whose trace holds every step of the pipeline
C16_Witness ==
    \E r \in Req :
        /\ Ok(r)
        /\ InTrace(r, "model") /\ InTrace(r, "yield") /\ InTrace(r, "not_empty")
        /\ InTrace(r, "normalize") /\ InTrace(r, "assemble")
        /\ trace[r][Len(trace[r])] = "release"

\* the info object of the model call of r carries no language: the attribute
\* is missing, or it is None
NoLanguageReported(r) == info[r].language \in {Absent, NoneVal}

\* C17 as stated: whenever the model reports no language (info has no
\* language attribute, or the attribute is None), a 200 response carries
\* info.detected_language "unknown" and the translation service was invoked.
C17_NoLanguageIsUnknown ==
    \A r \in Req :
        Ok(r) /\ NoLanguageReported(r) =>
            /\ response[r].body.info.detected_language = "unknown"
            /\ Len(transCalls[r]) = 1

\* the part of C17 the code keeps: an info object without the attribute
C17_AbsentLanguageIsUnknown ==
    \A r \in Req :
        Ok(r) /\ info[r].language = Absent =>
            /\ response[r].body.info.detected_language = "unknown"
            /\ Len(transCalls[r]) = 1

\* raw segments that lack one attribute each, all of them, or none
PartialSegs ==
    { [start |-> 1, end |-> 2, text |-> <<" ", "a">>],
      [start |-> AbsentTime, end |-> 2, text |-> <<"a">>],
      [start |-> 1, end |-> AbsentTime, text |-> <<"a">>],
      [start |-> 1, end |-> 2, text |-> AbsentText],
      [start |-> AbsentTime, end |-> AbsentTime, text |-> AbsentText] }

AttrFilenames == {<<"a", ".", "w">>}
AttrLangParams == {NoneVal}
AttrInfos == {[language |-> "hi", duration |-> 7]}
AttrTransOuts == {[kind |-> "raise", text |-> <<>>], [kind |-> "ok", text |-> <<"n">>]}

\* one request whose model yields segments with missing attributes
NextAttrs ==
    \/ \E r \in {1} :
        \/ Receive(r, AttrFilenames, AttrLangParams)
        \/ Create(r)
        \/ AwaitRead(r)
        \/ Write(r)
        \/ Cancel(r)
        \/ Check(r)
        \/ ModelCall(r, AttrInfos)
        \/ DrainNext(r, PartialSegs)
        \/ DrainRaise(r)
        \/ DrainEnd(r)
        \/ EmptyCheck(r)
        \/ Normalize(r, AttrTransOuts)
        \/ Assemble(r)
        \/ Finally(r)
    \/ EnvUnlink

SpecAttrs == Init /\ [][NextAttrs]_vars

\* the raw segment lacks at least one of start, end, text
LacksAttr(segment) ==
    segment.start = AbsentTime \/ segment.end = AbsentTime \/ segment.text = AbsentText

\* seg is what the response shows for the raw segment at (0-based) ordinal i:
\* a missing start or end is 0, a missing text is empty, a present attribute
\* is kept (the text trimmed)
ShownWithDefaults(seg, i, raw) ==
    /\ seg.id = i
    /\ seg.start = (IF raw.start = AbsentTime THEN 0 ELSE raw.start)
    /\ seg.end = (IF raw.end = AbsentTime THEN 0 ELSE raw.end)
    /\ seg.text = (IF raw.text = AbsentText THEN <<>> ELSE Strip(raw.text))

\* C18: a raw segment without start, end or text never fails the request:
\* while the sequence is iterated every yielded segment has been recorded, and
\* a request whose sequence was drained with at least one segment ends with
\* 200, its response showing every segment under its ordinal id with 0 for a
\* missing start or end and the empty text for a missing text, the other
\* segments being unaffected.
C18_MissingAttributesDefault ==
    \A r \in Req :
        /\ pc[r] = "drain" => fault[r] = "none" /\ Len(segments[r]) = Len(yielded[r])
        /\ Done(r) /\ Drained(r) /\ yielded[r] # <<>> =>
              /\ response[r].status = 200
              /\ Len(response[r].body.segments) = Len(yielded[r])
              /\ \A i \in 1..Len(yielded[r]) :
                    ShownWithDefaults(response[r].body.segments[i], i - 1, yielded[r][i])

\* a 200 for three segments: one without start only, one without text only,
\* one without end only
C18_Witness ==
    \E r \in Req :
        /\ Ok(r)
        /\ Len(yielded[r]) = 3
        /\ yielded[r][1].start = AbsentTime /\ yielded[r][1].end # AbsentTime
        /\ yielded[r][2].text = AbsentText /\ yielded[r][2].start # AbsentTime
        /\ yielded[r][3].end = AbsentTime /\ yielded[r][3].text # AbsentText
        /\ \A i \in 1..3 : LacksAttr(yielded[r][i])

\* the outcome of a request that is the only one the server handles, from
\* its upload's filename f, the failure flt its own steps met, the info i and
\* the segments ys its model call gave and the result out of its translation
\* call
Alone(f, flt, i, ys, out) ==
    IF f = NoFilename THEN Handle(Exc("TypeError"))
    ELSE CASE flt = "create" -> Handle(Exc("OSError"))
           [] flt = "write" -> Handle(Exc("OSError"))
           [] flt = "cancel" -> Cancelled
           [] flt = "missing" -> Handle(HttpExc(500, "Temporary file not saved correctly."))
           [] flt = "model" -> Handle(Exc("model"))
           [] flt = "drain" -> Handle(Exc("decode"))
           [] flt = "none" ->
                LET segs == [k \in 1..Len(ys) |-> SegData(k - 1, ys[k])]
                    parts == [k \in 1..Len(ys) |-> segs[k].text]
                    final == FinalText(parts)
                    lang == DetectedLang(i)
                IN  IF NoSpeech(segs)
                    THEN Handle(HttpExc(400, "No speech detected in the audio."))
                    ELSE [status |-> 200, detail |-> <<>>,
                          body |-> Result(final,
                                          IF Triggers(lang) THEN Translated(final, out)
                                          ELSE final,
                                          segs, lang, i)]

\* C19: for every interleaving of the requests of one server, the outcome of a
\* completed request is the one it has when it is run alone, a function of its
\* own upload and of the results its own model and translation calls gave;
\* and no request finds its temporary file missing because of another.
C19_NoInterference ==
    \A r \in Req :
        Done(r) =>
            /\ fault[r] # "missing"
            /\ response[r] = Alone(file[r], fault[r], info[r], yielded[r], transOut[r])

\* both requests have completed, one with a translated 200 and the other
\* without
C19_Witness ==
    /\ Done(1) /\ Done(2)
    /\ InTrace(1, "await_read") /\ InTrace(2, "await_read")
    /\ response[1].status = 200 /\ Len(transCalls[1]) = 1
    /\ response[2] # response[1]

====
